---- MODULE Spec2Model ----
(***************************************************************************)
(* One-way reconciliation of CalDAV events into a Google calendar          *)
(* (script.py).  The destination calendar is the only durable state; each  *)
(* run of the script is a process that reads its environment, computes a   *)
(* window, pulls the source objects and feeds every VEVENT through         *)
(* parse_vevents and ensure_event.                                         *)
(*                                                                         *)
(* Time is counted in hours.  An ISO string is modelled by the string of   *)
(* its UTC hour count, a date by its day number.                           *)
(***************************************************************************)
EXTENDS Integers, Sequences, FiniteSets, TLC

VARIABLES
    src,        \* the CalDAV side: [cal, objs], the first calendar's objects
    dest,       \* the Google calendar: a sequence of events, in list order
    nextId,     \* the id the destination gives its next created event
    clock,      \* the last reading of the wall clock
    hostTz,     \* the host's local UTC offset in hours
    passes,     \* runs of the script started so far
    lastDone,   \* history: the window of the last run, when it ended with 0
    run         \* per process: the local state of one run of main()

vars == <<src, dest, nextId, clock, hostTz, passes, lastDone, run>>

\* ------------------------------------------------------------------ bounds
MaxPasses == 2      \* runs of the script in one behaviour
MaxObjs == 2        \* calendar objects the source calendar holds
MaxDest == 4        \* events the destination calendar holds

\* --------------------------------------------------------------- constants
DAYS_AHEAD == 14
DAYS_PAST == 1
HoursPerDay == 24
MaxResults == 2

None == "None"
Marker == "\n\n[SYNC: ISERV]"

\* the keys of the environment the sanity check requires
RequiredEnv == {"CALDAV_URL", "CALDAV_USER", "CALDAV_PASS", "GOOGLE_CAL_ID"}

\* ------------------------------------------------------ source value space
Absent == [k |-> "absent", t |-> 0, aware |-> FALSE, off |-> 0]
DateTime(t, aware, off) == [k |-> "datetime", t |-> t, aware |-> aware, off |-> off]
Date(d) == [k |-> "date", t |-> d, aware |-> FALSE, off |-> 0]

IsDateTime(v) == v.k = "datetime"
Truthy(v) == v.k # "absent"

\* str.strip() on the texts the model uses
Strip(s) ==
    CASE s = " A " -> "A"
      [] s = " u1 " -> "u1"
      [] s = " " -> ""
      [] OTHER -> s

\* x or ""
OrEmpty(x) == IF x = None \/ x = "" THEN "" ELSE x

\* datetime.isoformat() of a UTC instant
IsoFormat(t) == ToString(t)

\* date.isoformat() of a day
DateIso(d) == "D" \o ToString(d)

\* str(dt) of a decoded value, as hashed by the fallback identity
StrOf(v) ==
    CASE v.k = "absent" -> "None"
      [] v.k = "date" -> "D" \o ToString(v.t)
      [] v.aware -> "T" \o ToString(v.t) \o "+" \o ToString(v.off)
      [] OTHER -> "T" \o ToString(v.t)

\* hashlib.sha1(raw).hexdigest(), collision free
Sha1Hex(raw) == "sha1<" \o raw \o ">"

FallbackKey_NoEnd(summary, dtstart, dtend) ==
    "fallback-" \o Sha1Hex(summary \o StrOf(dtstart))

\* the identity of a component without UID
FallbackKey(summary, dtstart, dtend) ==
    "fallback-" \o Sha1Hex(summary \o StrOf(dtstart) \o StrOf(dtend))

\* dt.astimezone(timezone.utc): an aware value loses its offset, a naive one
\* is read in the host's local zone
AsTimezoneUtc(v) == IF v.aware THEN v.t - v.off ELSE v.t - hostTz

\* dt.replace(tzinfo=timezone.utc)
ReplaceUtc(dt) == DateTime(dt.t, TRUE, 0)

\* the UTC hour of a datetime after to_rfc3339's two steps
Rfc3339Hour(dt) == AsTimezoneUtc(IF dt.aware THEN dt ELSE ReplaceUtc(dt))

to_rfc3339(dt) == IF IsDateTime(dt) THEN IsoFormat(Rfc3339Hour(dt)) ELSE None

\* {"dateTime": ...} and {"date": ...}; at is the instant the destination
\* reads from the string (a date is read as that day's midnight UTC)
TimedPayload(dt) ==
    [k |-> "dateTime", v |-> to_rfc3339(dt), at |-> Rfc3339Hour(dt)]
DatePayload(d) ==
    [k |-> "date", v |-> DateIso(d.t), at |-> d.t * HoursPerDay]

Plus1h_Same(dt) == dt

\* dtstart + timedelta(hours=1)
Plus1h(dt) == DateTime(dt.t + 1, dt.aware, dt.off)

\* one VEVENT component through the body of parse_vevents' loop
NormalizeComp(comp) ==
    LET uid0 == Strip(comp.UID)
        summary == Strip(comp.SUMMARY)
        description == Strip(comp.DESCRIPTION)
        dtstart == comp.DTSTART
        dtend == comp.DTEND
        lastmod == IF Truthy(comp.LASTMOD) THEN comp.LASTMOD ELSE comp.DTSTAMP
        uid == IF uid0 = "" THEN FallbackKey(summary, dtstart, dtend) ELSE uid0
        lastmod_iso ==
            IF Truthy(lastmod)
            THEN IF IsDateTime(lastmod)
                 THEN IsoFormat(AsTimezoneUtc(lastmod))
                 ELSE IsoFormat(lastmod.t * HoursPerDay)
            ELSE None
        start_payload ==
            IF IsDateTime(dtstart) THEN TimedPayload(dtstart)
            ELSE DatePayload(dtstart)
        end_payload ==
            IF Truthy(dtend)
            THEN IF IsDateTime(dtend) THEN TimedPayload(dtend)
                 ELSE DatePayload(dtend)
            ELSE IF IsDateTime(dtstart) THEN TimedPayload(Plus1h(dtstart))
                 ELSE DatePayload(dtstart)
    IN  [uid |-> uid, summary |-> summary, description |-> description,
         start |-> start_payload, end |-> end_payload, lastmod |-> lastmod_iso]

\* ------------------------------------------------------------ input pools
Procs == {1, 2}

Utc(t) == DateTime(t, TRUE, 0)

Comp(uid, summary, description, dtstart, dtend, lastmod, dtstamp) ==
    [UID |-> uid, SUMMARY |-> summary, DESCRIPTION |-> description,
     DTSTART |-> dtstart, DTEND |-> dtend, LASTMOD |-> lastmod, DTSTAMP |-> dtstamp]

\* the VEVENTs the source may hold: one event u1 in its versions (first
\* stamped, edited, moved out of the first window, never stamped), one
\* all-day event u2, and a component without DTSTART
CompA1 == Comp("u1", "A", "d", Utc(100), Absent, Utc(1), Absent)
CompB2 == Comp("u1", "B", "", Utc(100), Utc(102), Utc(2), Utc(1))
CompMoved == Comp("u1", "A", "d", Utc(400), Absent, Utc(2), Absent)
CompBare == Comp("u1", "A", "d", Utc(100), Absent, Absent, Absent)
CompDay == Comp("u2", "C", "", Date(10), Absent, Absent, Utc(1))
CompNoStart == Comp("u2", "C", "", Absent, Absent, Absent, Utc(1))

Obj(comps) == [ok |-> TRUE, comps |-> comps]
BadObj == [ok |-> FALSE, comps |-> <<>>]

\* the calendar objects (bytes) the source may hold; the pair is a recurring
\* event with an overridden instance, which share their UID
ObjPool ==
    {Obj(<<c>>) : c \in {CompA1, CompB2, CompMoved, CompBare, CompDay, CompNoStart}}
    \cup {Obj(<<CompA1, CompB2>>), BadObj}

\* readings of the clock (hours)
Nows == {24, 240}

\* environments a run may be started in
Env(missing, b64, file) == [missing |-> missing, b64 |-> b64, file |-> file]
Envs ==
    {Env({}, "ok", "unset"), Env({}, "unset", "ok"), Env({}, "bad", "ok"),
     Env({}, "unset", "bad"), Env({}, "unset", "unset"),
     Env({"CALDAV_URL"}, "ok", "unset"),
     Env({"CALDAV_PASS", "GOOGLE_CAL_ID"}, "unset", "unset")}

\* --------------------------------------------------- the destination (API)
Priv(source, uid, lastmod) ==
    [k \in {"source", "uid", "lastmod"} |->
        CASE k = "source" -> source [] k = "uid" -> uid [] OTHER -> lastmod]

Get(f, k, default) == IF k \in DOMAIN f THEN f[k] ELSE default

\* dict merge {**a, **b}: b's keys win
Merge(a, b) ==
    [k \in DOMAIN a \cup DOMAIN b |-> IF k \in DOMAIN b THEN b[k] ELSE a[k]]

Tagged(e, uid) ==
    /\ Get(e.priv, "source", None) = "ISERV"
    /\ Get(e.priv, "uid", None) = uid

\* timeMin bounds the events' end, timeMax their start (both exclusive)
InWindow(s, e, tmin, tmax) == e > tmin /\ s < tmax

Take(seq, n) == IF Len(seq) <= n THEN seq ELSE SubSeq(seq, 1, n)

ListEvents_NoFilter(d, tmin, tmax, uid) ==
    Take(SelectSeq(d, LAMBDA e : InWindow(e.start.at, e.end.at, tmin, tmax)),
         MaxResults)

\* events().list(timeMin, timeMax, privateExtendedProperty, maxResults)
ListEvents(d, tmin, tmax, uid) ==
    Take(SelectSeq(d, LAMBDA e :
             Tagged(e, uid) /\ InWindow(e.start.at, e.end.at, tmin, tmax)),
         MaxResults)

\* variant: the event id is derived from the tag, so that a second insert
\* under a tag replaces the first
InsertEvent_Upsert(d, id, body) ==
    IF \E i \in 1..Len(d) : Tagged(d[i], body.priv["uid"])
    THEN [i \in 1..Len(d) |->
             IF Tagged(d[i], body.priv["uid"]) THEN [body EXCEPT !.id = d[i].id]
             ELSE d[i]]
    ELSE Append(d, [body EXCEPT !.id = id])

\* events().insert(body): the destination appends the event under a new id
InsertEvent(d, id, body) == Append(d, [body EXCEPT !.id = id])

\* events().patch(eventId, body): the named fields are replaced, the private
\* properties merged key by key
PatchEvent(d, id, body) ==
    [i \in 1..Len(d) |->
        IF d[i].id = id
        THEN [id |-> id, summary |-> body.summary, description |-> body.description,
              start |-> body.start, end |-> body.end,
              priv |-> Merge(d[i].priv, body.priv)]
        ELSE d[i]]

\* ------------------------------------------------ ensure_event's payloads
\* variant: the record's lastmod is stored as it is, None included
InsertBody_RawLastmod(event) ==
    [id |-> 0,
     summary |-> event.summary,
     description |-> OrEmpty(event.description) \o Marker,
     start |-> event.start,
     end |-> event.end,
     priv |-> Priv("ISERV", event.uid, event.lastmod)]

InsertBody(event) ==
    [id |-> 0,
     summary |-> event.summary,
     description |-> OrEmpty(event.description) \o Marker,
     start |-> event.start,
     end |-> event.end,
     priv |-> Priv("ISERV", event.uid, OrEmpty(event.lastmod))]

\* variant: the merge the other way round, {"lastmod": ..., **g_priv}
PatchPriv_Reversed(g_priv, event) ==
    Merge([k \in {"lastmod"} |-> OrEmpty(event.lastmod)], g_priv)

PatchPriv(g_priv, event) ==
    Merge(g_priv, [k \in {"lastmod"} |-> OrEmpty(event.lastmod)])

PatchBody(g_priv, event) ==
    [summary |-> event.summary,
     description |-> OrEmpty(event.description) \o Marker,
     start |-> event.start,
     end |-> event.end,
     priv |-> PatchPriv(g_priv, event)]

\* variant: event["lastmod"] != g_priv.get("lastmod", "")
LastmodDiffers_NoDefault(event, g_priv) ==
    event.lastmod # Get(g_priv, "lastmod", "")

\* (event["lastmod"] or "") != g_priv.get("lastmod", "")
LastmodDiffers(event, g_priv) ==
    OrEmpty(event.lastmod) # Get(g_priv, "lastmod", "")

\* items[0]
Counterpart(items) == items[1]

\* --------------------------------------------------------- source (CalDAV)
NoEvent ==
    [uid |-> "", summary |-> "", description |-> "",
     start |-> [k |-> "none", v |-> "", at |-> 0],
     end |-> [k |-> "none", v |-> "", at |-> 0], lastmod |-> None]

\* one component lies in the searched range when its span meets it; the
\* server is taken to read the times as the script does, and to bound the
\* range as the destination's list does
CompInRange(comp, tmin, tmax) ==
    \/ ~Truthy(comp.DTSTART)
    \/ LET ev == NormalizeComp(comp)
       IN  InWindow(ev.start.at, ev.end.at, tmin, tmax)

\* calendar.date_search(start, end): the objects with a component in range;
\* an object the server cannot index by time is returned as it is
DateSearchResult(objs, tmin, tmax) ==
    SelectSeq(objs, LAMBDA o :
        \/ ~o.ok
        \/ \E i \in 1..Len(o.comps) : CompInRange(o.comps[i], tmin, tmax))

\* a calendar collection holds every UID in one object only (the components
\* of one object, a recurring event and its overridden instances, share it)
ObjUids(o) == {o.comps[i].UID : i \in 1..Len(o.comps)}

UidsApart(objs) ==
    \A i, j \in 1..Len(objs) : i # j => ObjUids(objs[i]) \cap ObjUids(objs[j]) = {}

\* ------------------------------------------------------------- log, calls
LogEntry(lvl, msg, id, summary) ==
    [lvl |-> lvl, msg |-> msg, id |-> id, summary |-> summary]
\* a call of a collaborator, with the range it was given (0, 0 when it takes none)
RangedCall(op, uid, id, from, to) ==
    [op |-> op, uid |-> uid, id |-> id, from |-> from, to |-> to]
Call(op, uid, id) == RangedCall(op, uid, id, 0, 0)

IdleRun ==
    [pc |-> "off", env |-> Env({}, "unset", "unset"), status |-> 0,
     time_min |-> 0, time_max |-> 0,
     objs |-> <<>>, comps |-> <<>>, ev |-> NoEvent, items |-> <<>>,
     total |-> 0, calls |-> <<>>, log |-> <<>>, fail |-> "none",
     prev |-> [valid |-> FALSE, time_min |-> 0, time_max |-> 0]]

\* sys.exit(status) after log.error(msg)
Exit(r, status, msg) ==
    [r EXCEPT !.pc = "exited", !.status = status,
              !.log = Append(@, LogEntry("ERROR", msg, 0, ""))]

\* an exception reaching the handler of __main__: log.exception, sys.exit(1)
Raise(r, kind) ==
    [Exit(r, 1, "Unerwarteter Fehler") EXCEPT !.fail = kind]

Idle == \A p \in Procs : run[p].pc = "off"

\* ------------------------------------------------------------------ actions
\* the environment edits the source calendar while no run is in progress
AddObject(o) ==
    /\ Idle
    /\ src.cal
    /\ Len(src.objs) < MaxObjs
    /\ UidsApart(Append(src.objs, o))
    /\ src' = [src EXCEPT !.objs = Append(@, o)]
    /\ UNCHANGED <<dest, nextId, clock, hostTz, passes, lastDone, run>>

ReplaceObject(i, o) ==
    /\ Idle
    /\ i \in 1..Len(src.objs)
    /\ src.objs[i] # o
    /\ UidsApart([src.objs EXCEPT ![i] = o])
    /\ src' = [src EXCEPT !.objs[i] = o]
    /\ UNCHANGED <<dest, nextId, clock, hostTz, passes, lastDone, run>>

RemoveObject(i) ==
    /\ Idle
    /\ i \in 1..Len(src.objs)
    /\ src' = [src EXCEPT !.objs =
                  [j \in 1..(Len(@) - 1) |-> IF j < i THEN @[j] ELSE @[j + 1]]]
    /\ UNCHANGED <<dest, nextId, clock, hostTz, passes, lastDone, run>>

\* the script is started: python script.py with its environment
Launch(p, env) ==
    /\ run[p].pc = "off"
    /\ passes < MaxPasses
    /\ passes' = passes + 1
    /\ run' = [run EXCEPT ![p] = [IdleRun EXCEPT !.pc = "sanity", !.env = env,
                                                 !.prev = lastDone]]
    /\ lastDone' = [lastDone EXCEPT !.valid = FALSE]
    /\ UNCHANGED <<src, dest, nextId, clock, hostTz>>

\* main: the sanity check of the required variables
SanityCheck(p) ==
    /\ run[p].pc = "sanity"
    /\ run' = [run EXCEPT ![p] =
                 IF run[p].env.missing # {}
                 THEN Exit(@, 2, "Fehlende ENV Variablen")
                 ELSE [@ EXCEPT !.pc = "creds"]]
    /\ UNCHANGED <<src, dest, nextId, clock, hostTz, passes, lastDone>>

\* variant: without the final sys.exit(2) the function returns None
load_google_credentials_NoExit(env) ==
    IF env.b64 # "unset"
    THEN IF env.b64 = "ok" THEN ""
         ELSE "Konnte GOOGLE_CREDENTIALS_JSON_B64 nicht laden"
    ELSE IF env.file # "unset"
    THEN IF env.file = "ok" THEN ""
         ELSE "Konnte GOOGLE_CREDENTIALS_FILE nicht laden"
    ELSE ""

\* load_google_credentials: "" when credentials are returned, else the
\* message logged before sys.exit(2)
load_google_credentials(env) ==
    IF env.b64 # "unset"
    THEN IF env.b64 = "ok" THEN ""
         ELSE "Konnte GOOGLE_CREDENTIALS_JSON_B64 nicht laden"
    ELSE IF env.file # "unset"
    THEN IF env.file = "ok" THEN ""
         ELSE "Konnte GOOGLE_CREDENTIALS_FILE nicht laden"
    ELSE "Keine Google-Credentials gesetzt"

\* creds = load_google_credentials(); service = build(...): no request is sent
LoadCredentials(p) ==
    /\ run[p].pc = "creds"
    /\ run' = [run EXCEPT ![p] =
                 LET failed == load_google_credentials(run[p].env) IN
                 IF failed = "" THEN [@ EXCEPT !.pc = "now"]
                 ELSE Exit(@, 2, failed)]
    /\ UNCHANGED <<src, dest, nextId, clock, hostTz, passes, lastDone>>

SyncWindow_Swapped(now) ==
    [time_min |-> now - DAYS_AHEAD * HoursPerDay,
     time_max |-> now + DAYS_PAST * HoursPerDay]

\* start = now - timedelta(days=DAYS_PAST); end = now + timedelta(days=DAYS_AHEAD)
SyncWindow(now) ==
    [time_min |-> now - DAYS_PAST * HoursPerDay,
     time_max |-> now + DAYS_AHEAD * HoursPerDay]

\* now = datetime.now(utc); start, end, time_min_iso, time_max_iso
ComputeWindow(p, now) ==
    /\ run[p].pc = "now"
    /\ now >= clock
    /\ clock' = now
    /\ run' = [run EXCEPT ![p] =
                 [@ EXCEPT !.pc = "connect",
                           !.time_min = SyncWindow(now).time_min,
                           !.time_max = SyncWindow(now).time_max]]
    /\ UNCHANGED <<src, dest, nextId, hostTz, passes, lastDone>>

\* DAVClient(...).principal().calendars(); calendars[0]
ConnectSource(p, ok) ==
    /\ run[p].pc = "connect"
    /\ run' = [run EXCEPT ![p] =
                 LET r == [@ EXCEPT !.calls = Append(@, Call("calendars", "", 0))] IN
                 IF ~ok THEN Raise(r, "source")
                 ELSE IF ~src.cal THEN Exit(r, 3, "Kein CalDAV-Kalender gefunden")
                 ELSE [r EXCEPT !.pc = "search"]]
    /\ UNCHANGED <<src, dest, nextId, clock, hostTz, passes, lastDone>>

\* ical_objs = calendar.date_search(start, end); total = 0
DateSearch(p, ok) ==
    /\ run[p].pc = "search"
    /\ run' = [run EXCEPT ![p] =
                 LET r == [@ EXCEPT !.calls = Append(@,
                              RangedCall("date_search", "", 0, run[p].time_min,
                                         run[p].time_max))] IN
                 IF ~ok THEN Raise(r, "source")
                 ELSE [r EXCEPT !.pc = "loop", !.total = 0,
                                !.objs = DateSearchResult(src.objs, r.time_min,
                                                          r.time_max)]]
    /\ UNCHANGED <<src, dest, nextId, clock, hostTz, passes, lastDone>>

\* for obj in ical_objs: the generator parse_vevents(obj.data) is entered,
\* Calendar.from_ical parses the bytes or raises
NextObject(p) ==
    /\ run[p].pc = "loop"
    /\ run[p].comps = <<>>
    /\ run[p].objs # <<>>
    /\ run' = [run EXCEPT ![p] =
                 LET obj == Head(run[p].objs)
                     r == [@ EXCEPT !.objs = Tail(@)] IN
                 IF ~obj.ok THEN Raise(r, "parse")
                 ELSE [r EXCEPT !.comps = obj.comps]]
    /\ UNCHANGED <<src, dest, nextId, clock, hostTz, passes, lastDone>>

\* for comp in cal.walk("VEVENT"): the loop body up to the yield;
\* comp.decoded("DTSTART") raises when the component has none
NextEvent(p) ==
    /\ run[p].pc = "loop"
    /\ run[p].comps # <<>>
    /\ run' = [run EXCEPT ![p] =
                 LET comp == Head(run[p].comps)
                     r == [@ EXCEPT !.comps = Tail(@)] IN
                 IF ~Truthy(comp.DTSTART) THEN Raise(r, "decode")
                 ELSE [r EXCEPT !.pc = "list", !.ev = NormalizeComp(comp)]]
    /\ UNCHANGED <<src, dest, nextId, clock, hostTz, passes, lastDone>>

\* ensure_event: the lookup by private extended property
Lookup(p, ok) ==
    /\ run[p].pc = "list"
    /\ run' = [run EXCEPT ![p] =
                 LET r == [@ EXCEPT !.calls = Append(@,
                              RangedCall("list", run[p].ev.uid, 0, run[p].time_min,
                                         run[p].time_max))] IN
                 IF ~ok THEN Raise(r, "lookup")
                 ELSE [r EXCEPT !.pc = "decide",
                                !.items = ListEvents(dest, r.time_min, r.time_max,
                                                     r.ev.uid)]]
    /\ UNCHANGED <<src, dest, nextId, clock, hostTz, passes, lastDone>>

\* ensure_event after the lookup: create, update or leave, then back in
\* main's loop (total += 1)
Reconcile(p, ok) ==
    LET r == run[p]
        event == r.ev
        items == r.items
    IN
    /\ r.pc = "decide"
    /\ IF items = <<>>
       THEN LET body == InsertBody(event)
                called == [r EXCEPT !.calls = Append(@, Call("insert", event.uid, 0))]
            IN  IF ok
                THEN /\ Len(dest) < MaxDest
                     /\ dest' = InsertEvent(dest, nextId, body)
                     /\ nextId' = nextId + 1
                     /\ run' = [run EXCEPT ![p] =
                           [called EXCEPT !.pc = "loop", !.total = @ + 1,
                               !.log = Append(@, LogEntry("INFO", "Created", nextId,
                                                          event.summary))]]
                ELSE /\ run' = [run EXCEPT ![p] = Raise(called, "write")]
                     /\ UNCHANGED <<dest, nextId>>
       ELSE LET g_event == Counterpart(items)
                g_priv == g_event.priv
            IN  IF LastmodDiffers(event, g_priv)
                THEN LET called == [r EXCEPT !.calls =
                                       Append(@, Call("patch", event.uid, g_event.id))]
                     IN  IF ok
                         THEN /\ dest' = PatchEvent(dest, g_event.id,
                                                    PatchBody(g_priv, event))
                              /\ run' = [run EXCEPT ![p] =
                                    [called EXCEPT !.pc = "loop", !.total = @ + 1,
                                        !.log = Append(@, LogEntry("INFO", "Updated",
                                                    g_event.id, event.summary))]]
                              /\ UNCHANGED nextId
                         ELSE /\ run' = [run EXCEPT ![p] = Raise(called, "write")]
                              /\ UNCHANGED <<dest, nextId>>
                ELSE /\ ok
                     /\ run' = [run EXCEPT ![p] =
                           [r EXCEPT !.pc = "loop", !.total = @ + 1,
                               !.log = Append(@, LogEntry("DEBUG", "No change",
                                                          g_event.id, event.summary))]]
                     /\ UNCHANGED <<dest, nextId>>
    /\ UNCHANGED <<src, clock, hostTz, passes, lastDone>>

\* the loops are exhausted: the summary line, and the process ends with 0
Finish(p) ==
    /\ run[p].pc = "loop"
    /\ run[p].comps = <<>>
    /\ run[p].objs = <<>>
    /\ run' = [run EXCEPT ![p] =
                 [@ EXCEPT !.pc = "exited", !.status = 0,
                           !.log = Append(@, LogEntry("INFO", "Fertig", run[p].total, ""))]]
    /\ lastDone' = [valid |-> TRUE, time_min |-> run[p].time_min,
                    time_max |-> run[p].time_max]
    /\ UNCHANGED <<src, dest, nextId, clock, hostTz, passes>>

\* the ended process is gone, and with it its local state
Reap(p) ==
    /\ run[p].pc = "exited"
    /\ run' = [run EXCEPT ![p] = IdleRun]
    /\ UNCHANGED <<src, dest, nextId, clock, hostTz, passes, lastDone>>

\* ---------------------------------------------------------- specifications
EmptyDest == <<>>

InitWith(d) ==
    /\ src \in {[cal |-> c, objs |-> <<>>] : c \in BOOLEAN}
    /\ dest = d
    /\ nextId = Len(d) + 1
    /\ clock = 0
    /\ hostTz = 0
    /\ passes = 0
    /\ lastDone = IdleRun.prev
    /\ run = [p \in Procs |-> IdleRun]

Init == InitWith(EmptyDest)

EditSource ==
    \/ \E o \in ObjPool : AddObject(o)
    \/ \E i \in 1..MaxObjs, o \in ObjPool : ReplaceObject(i, o)
    \/ \E i \in 1..MaxObjs : RemoveObject(i)

Step(p) ==
    \/ \E env \in Envs : Launch(p, env)
    \/ SanityCheck(p)
    \/ LoadCredentials(p)
    \/ \E now \in Nows : ComputeWindow(p, now)
    \/ \E ok \in BOOLEAN : ConnectSource(p, ok)
    \/ \E ok \in BOOLEAN : DateSearch(p, ok)
    \/ NextObject(p)
    \/ NextEvent(p)
    \/ \E ok \in BOOLEAN : Lookup(p, ok)
    \/ \E ok \in BOOLEAN : Reconcile(p, ok)
    \/ Finish(p)
    \/ Reap(p)

\* one run at a time: the runs of the script are serialized
Next == EditSource \/ Step(1)

Spec == Init /\ [][Next]_vars

\* ----------------------------------------- a destination that is not empty
SeedEvent(summary, t, priv) ==
    [id |-> 0, summary |-> summary, description |-> "",
     start |-> TimedPayload(Utc(t)), end |-> TimedPayload(Utc(t + 1)),
     priv |-> priv]

NoPriv == [k \in {} |-> ""]

\* an event of an earlier run with an older stamp and one more private key
GStale == SeedEvent("old", 100, Merge(Priv("ISERV", "u1", "0"),
                                      [k \in {"note"} |-> "keep"]))
\* a second event under the same tag
GTwin == SeedEvent("A", 100, Priv("ISERV", "u1", "1"))
\* a tagged event that stores no lastmod
GNoStamp == SeedEvent("A", 100, [k \in {"source", "uid"} |->
                                    IF k = "source" THEN "ISERV" ELSE "u1"])
\* an event of the calendar's owner, without private properties
GForeign == SeedEvent("own", 100, NoPriv)
\* a tagged event of an earlier run whose source event is gone
GOrphan == SeedEvent("gone", 100, Priv("ISERV", "u0", "1"))

Numbered(seq) == [i \in 1..Len(seq) |-> [seq[i] EXCEPT !.id = i]]

SeedDests ==
    {Numbered(d) : d \in {<<>>, <<GStale>>, <<GStale, GTwin>>, <<GTwin, GStale>>,
                          <<GForeign, GNoStamp>>, <<GOrphan, GStale>>}}

SeqsUpTo(S, n) == UNION {[1..k -> S] : k \in 0..n}

\* a fixed source over a destination in any state
InitFixed ==
    /\ src \in {[cal |-> TRUE, objs |-> o] :
                  o \in {q \in SeqsUpTo(ObjPool, MaxObjs) : UidsApart(q)}}
    /\ dest \in SeedDests
    /\ nextId = Len(dest) + 1
    /\ clock = 0
    /\ hostTz = 0
    /\ passes = 0
    /\ lastDone = IdleRun.prev
    /\ run = [p \in Procs |-> IdleRun]

NextFixed == Step(1)

SpecFixed == InitFixed /\ [][NextFixed]_vars

\* two runs of the script that may overlap, over one-object calendars
InitConc ==
    /\ src \in {[cal |-> TRUE, objs |-> <<o>>] : o \in ObjPool}
    /\ dest = EmptyDest
    /\ nextId = 1
    /\ clock = 0
    /\ hostTz = 0
    /\ passes = 0
    /\ lastDone = IdleRun.prev
    /\ run = [p \in Procs |-> IdleRun]

NextConc == \E p \in Procs : Step(p)

SpecConc == InitConc /\ [][NextConc]_vars

\* ------------------------------------------------------------- properties
Mutations(calls) == {i \in 1..Len(calls) : calls[i].op \in {"insert", "patch"}}

InLoop(p) == run[p].pc \in {"loop", "list", "decide", "exited"}

\* the calls a step of p appended
NewCalls(p) == SubSeq(run'[p].calls, Len(run[p].calls) + 1, Len(run'[p].calls))

TaggedIserv(e) == "source" \in DOMAIN e.priv /\ e.priv["source"] = "ISERV"
                  /\ "uid" \in DOMAIN e.priv

StoredLastmod(e) == IF "lastmod" \in DOMAIN e.priv THEN e.priv["lastmod"] ELSE ""
RecordLastmod(ev) == IF ev.lastmod = None THEN "" ELSE ev.lastmod

\* C1: a run that directly follows a run that ended with 0, over the same
\* source and with the same window, issues no insert and no patch call.
C1_SecondPassIdempotent ==
    \A p \in Procs :
        (/\ InLoop(p)
         /\ run[p].prev.valid
         /\ run[p].prev.time_min = run[p].time_min
         /\ run[p].prev.time_max = run[p].time_max)
        => Mutations(run[p].calls) = {}

\* no calendar object of the source holds two components
SingleComponents == \A i \in 1..Len(src.objs) : Len(src.objs[i].comps) <= 1

\* the second pass is idle whenever the identity keys of the source are
\* pairwise distinct
IdempotentOnDistinctKeys == SingleComponents => C1_SecondPassIdempotent

\* C2: under serialized runs the destination never holds two events tagged
\* source=ISERV with the same uid.
C2_NoDuplicateTag ==
    \A i, j \in 1..Len(dest) :
        (i # j /\ TaggedIserv(dest[i]) /\ TaggedIserv(dest[j]))
        => dest[i].priv["uid"] # dest[j].priv["uid"]

\* C3: a run in which a destination lookup or insert/patch call raised has,
\* when it ends, processed every later event the source yielded.
C3_DestFailureIsolated ==
    \A p \in Procs :
        (run[p].pc = "exited" /\ run[p].fail \in {"lookup", "write"})
        => (run[p].comps = <<>> /\ run[p].objs = <<>>)

\* C4: a run in which the bytes of one calendar object could not be parsed
\* has, when it ends, processed every later calendar object.
C4_ParseFailureIsolated ==
    \A p \in Procs :
        (run[p].pc = "exited" /\ run[p].fail = "parse") => run[p].objs = <<>>

\* C5: ensure_event after its lookup issues exactly one insert and no patch
\* when there is no counterpart, exactly one patch on the first counterpart's
\* id and no insert when the stored lastmod differs from the record's (None
\* as ""), and no call, leaving the destination as it is, when they are equal.
C5_DecisionTable ==
    [][\A p \in Procs :
        (run[p].pc = "decide" /\ run'[p] # run[p]) =>
            LET ev == run[p].ev
                items == run[p].items
            IN  IF items = <<>>
                THEN NewCalls(p) = <<Call("insert", ev.uid, 0)>>
                ELSE IF RecordLastmod(ev) # StoredLastmod(items[1])
                THEN NewCalls(p) = <<Call("patch", ev.uid, items[1].id)>>
                ELSE NewCalls(p) = <<>> /\ dest' = dest]_vars

\* one run that created, updated and left an event unchanged
C5_Witness ==
    \E p \in Procs :
        /\ \E i \in 1..Len(run[p].calls) : run[p].calls[i].op = "insert"
        /\ \E i \in 1..Len(run[p].calls) : run[p].calls[i].op = "patch"
        /\ \E i \in 1..Len(run[p].log) : run[p].log[i].msg = "No change"

\* C6: the event a create adds carries source=ISERV, the record's uid and the
\* record's lastmod ("" for None) as its private properties, the record's
\* description followed by the marker, and the record's title, start and end.
C6_CreatePayload ==
    [][\A p \in Procs :
        (run[p].pc = "decide" /\ Len(dest') > Len(dest)) =>
            LET ev == run[p].ev
                e == dest'[Len(dest')]
            IN  /\ Len(dest') = Len(dest) + 1
                /\ SubSeq(dest', 1, Len(dest)) = dest
                /\ DOMAIN e.priv = {"source", "uid", "lastmod"}
                /\ e.priv["source"] = "ISERV"
                /\ e.priv["uid"] = ev.uid
                /\ e.priv["lastmod"] = RecordLastmod(ev)
                /\ e.description = ev.description \o "\n\n[SYNC: ISERV]"
                /\ e.summary = ev.summary
                /\ e.start = ev.start
                /\ e.end = ev.end]_vars

\* a run has just created the event of a record without last-modified
C6_Witness ==
    \E p \in Procs :
        /\ run[p].pc = "loop"
        /\ run[p].ev.lastmod = None
        /\ run[p].log # <<>>
        /\ run[p].log[Len(run[p].log)].msg = "Created"
        /\ \E i \in 1..Len(dest) :
              dest[i].id = run[p].log[Len(run[p].log)].id /\ dest[i].priv["lastmod"] = ""

\* C7: a patch sets the counterpart's title, body+marker, start, end and
\* private lastmod to the record's, keeps every other private property of the
\* counterpart and every other event as it was.
C7_UpdateFrame ==
    [][\A p \in Procs :
        (run[p].pc = "decide" /\ run'[p].pc = "loop" /\ run[p].items # <<>>
         /\ RecordLastmod(run[p].ev) # StoredLastmod(run[p].items[1])) =>
            LET ev == run[p].ev
                id == run[p].items[1].id
            IN  /\ Len(dest') = Len(dest)
                /\ \A i \in 1..Len(dest) :
                      IF dest[i].id # id THEN dest'[i] = dest[i]
                      ELSE /\ dest'[i].id = id
                           /\ dest'[i].summary = ev.summary
                           /\ dest'[i].description = ev.description \o "\n\n[SYNC: ISERV]"
                           /\ dest'[i].start = ev.start
                           /\ dest'[i].end = ev.end
                           /\ DOMAIN dest'[i].priv = DOMAIN dest[i].priv \cup {"lastmod"}
                           /\ dest'[i].priv["lastmod"] = RecordLastmod(ev)
                           /\ \A k \in DOMAIN dest[i].priv \ {"lastmod"} :
                                 dest'[i].priv[k] = dest[i].priv[k]]_vars

\* a counterpart with a further private key has been patched to a new stamp
C7_Witness ==
    \E p \in Procs :
        /\ run[p].pc = "loop"
        /\ run[p].log # <<>>
        /\ run[p].log[Len(run[p].log)].msg = "Updated"
        /\ \E i \in 1..Len(dest) :
              /\ dest[i].id = run[p].log[Len(run[p].log)].id
              /\ "note" \in DOMAIN dest[i].priv
              /\ dest[i].priv["note"] = "keep"
              /\ dest[i].priv["lastmod"] = RecordLastmod(run[p].ev)
              /\ dest[i].priv["lastmod"] # "0"

JustCreated(p) ==
    /\ run[p].pc = "loop"
    /\ run[p].items = <<>>
    /\ run[p].log # <<>>
    /\ run[p].log[Len(run[p].log)].msg = "Created"

SameTag(uid) == {i \in 1..Len(dest) : TaggedIserv(dest[i]) /\ dest[i].priv["uid"] = uid}

\* C8: when two overlapping runs both looked up the same identity_key with
\* no result and both created, the destination holds two events with that
\* source/uid tag.
C8_RaceDuplicates ==
    (/\ JustCreated(1) /\ JustCreated(2)
     /\ run[1].ev.uid = run[2].ev.uid)
    => Cardinality(SameTag(run[1].ev.uid)) >= 2

\* both runs, over the same window, got no result and created
C8_Witness ==
    /\ JustCreated(1) /\ JustCreated(2)
    /\ run[1].ev.uid = run[2].ev.uid
    /\ run[1].time_min = run[2].time_min
    /\ run[1].time_max = run[2].time_max
    /\ Cardinality(SameTag(run[1].ev.uid)) = 2

\* C9: after ensure_event handled a lookup that returned two events, the
\* run's log holds an anomaly entry.
C9_AnomalyLogged ==
    \A p \in Procs :
        (run[p].pc = "loop" /\ Len(run[p].items) >= 2)
        => \E i \in 1..Len(run[p].log) : run[p].log[i].msg = "Anomaly"

ConfigMissing(env) == env.missing # {} \/ (env.b64 = "unset" /\ env.file = "unset")

\* C10: a run whose required configuration is missing never issues a source
\* or destination call, never gets past the credential loading, and ends
\* with status 2.
C10_ConfigFatalBeforeNetwork ==
    \A p \in Procs :
        (run[p].pc # "off" /\ ConfigMissing(run[p].env)) =>
            /\ run[p].calls = <<>>
            /\ run[p].pc \in {"sanity", "creds", "exited"}
            /\ run[p].pc = "exited" => run[p].status = 2

\* a run without credentials, all other variables set, has ended
C10_Witness ==
    \E p \in Procs :
        /\ run[p].pc = "exited"
        /\ run[p].env.missing = {}
        /\ run[p].env.b64 = "unset" /\ run[p].env.file = "unset"
        /\ run[p].status = 2

\* ------------------------------------------- an event that is never stamped
\* u1 without LAST-MODIFIED and DTSTAMP: as first seen, with title, body and
\* end edited, and with its start moved (inside every window read)
CompBareEdited == Comp("u1", "B", "", Utc(100), Utc(102), Absent, Absent)
CompBareLater == Comp("u1", "A", "d", Utc(300), Absent, Absent, Absent)

BarePool == {Obj(<<c>>) : c \in {CompBare, CompBareEdited, CompBareLater, CompDay}}

EditBare ==
    \/ \E o \in BarePool : AddObject(o)
    \/ \E i \in 1..MaxObjs, o \in BarePool : ReplaceObject(i, o)
    \/ \E i \in 1..MaxObjs : RemoveObject(i)

NextBare == EditBare \/ Step(1)

SpecBare == Init /\ [][NextBare]_vars

PatchesOf(p, uid) ==
    {i \in 1..Len(run[p].calls) :
        run[p].calls[i].op = "patch" /\ run[p].calls[i].uid = uid}

\* C11: for the never-stamped event u1 the destination holds at most one
\* created event, and no run issues a patch for it.
C11_NeverStampedOnce ==
    /\ Cardinality(SameTag("u1")) <= 1
    /\ \A p \in Procs : PatchesOf(p, "u1") = {}

\* the never-stamped event is never patched, whatever is edited
BareNeverUpdated == \A p \in Procs : PatchesOf(p, "u1") = {}

\* ------------------------------------------------ the normalizer on its own
\* host zones, as hours east of UTC
HostOffsets == {0, 1}

Naive(t) == DateTime(t, FALSE, 0)

\* raw components: every UID shape, titles with and without padding, starts
\* and ends of every kind, and stamps naive, aware and missing
RawUids == {"", " ", "u1", " u1 "}
RawSummaries == {"A", "B", " A "}
RawStarts == {Naive(100), DateTime(101, TRUE, 1), Date(5)}
RawEnds == {Absent, Naive(102), Date(6)}
RawStamps == {<<Absent, Absent>>, <<Naive(2), Absent>>, <<Absent, Utc(1)>>}

RawComps ==
    {Comp(u, s, d, st, en, lm[1], lm[2]) :
        u \in RawUids, s \in RawSummaries, d \in {"d", ""},
        st \in RawStarts, en \in RawEnds, lm \in RawStamps}

\* one component in the source, read on a host in any zone
InitNorm ==
    /\ src \in {[cal |-> TRUE, objs |-> <<Obj(<<c>>)>>] : c \in RawComps}
    /\ dest = EmptyDest
    /\ nextId = 1
    /\ clock = 0
    /\ hostTz \in HostOffsets
    /\ passes = 0
    /\ lastDone = IdleRun.prev
    /\ run = [p \in Procs |-> IdleRun]

NextNorm == Step(1)

SpecNorm == InitNorm /\ [][NextNorm]_vars

\* the component read and the record parse_vevents yielded for it
Raw == src.objs[1].comps[1]
Rec == run[1].ev
Yielded == run[1].pc \in {"list", "decide"}

\* the UTC hour of a decoded date-time whose missing zone means UTC
WallAsUtc(v) == IF v.aware THEN v.t - v.off ELSE v.t

\* C12: every record has an end; a given end keeps its kind and value, a
\* missing end is the start plus one hour for a timed start and the start
\* date for an all-day start.
C12_EndSynthesis ==
    Yielded =>
        /\ Rec.end.k \in {"dateTime", "date"}
        /\ Raw.DTEND.k = "datetime" =>
              /\ Rec.end.k = "dateTime"
              /\ Rec.end.at = WallAsUtc(Raw.DTEND)
              /\ Rec.end.v = ToString(WallAsUtc(Raw.DTEND))
        /\ Raw.DTEND.k = "date" =>
              /\ Rec.end.k = "date"
              /\ Rec.end.v = DateIso(Raw.DTEND.t)
        /\ (Raw.DTEND.k = "absent" /\ Raw.DTSTART.k = "datetime") =>
              /\ Rec.end.k = "dateTime"
              /\ Rec.end.at = WallAsUtc(Raw.DTSTART) + 1
              /\ Rec.end.v = ToString(WallAsUtc(Raw.DTSTART) + 1)
        /\ (Raw.DTEND.k = "absent" /\ Raw.DTSTART.k = "date") =>
              /\ Rec.end.k = "date"
              /\ Rec.end.v = DateIso(Raw.DTSTART.t)

C12_Witness ==
    /\ Yielded
    /\ Raw.DTEND.k = "absent"
    /\ Raw.DTSTART.k = "datetime"
    /\ Rec.end.at = Rec.start.at + 1

\* the title and the start and end texts a fallback key is derived from
Triple(comp) == <<Strip(comp.SUMMARY), StrOf(comp.DTSTART), StrOf(comp.DTEND)>>

DifferingParts(a, b) == {i \in 1..3 : a[i] # b[i]}

\* the components that carry no usable UID
Unnamed == {c \in RawComps : Strip(c.UID) = ""}

\* C13 as stated: a non-empty UID is the identity key verbatim, an absent or
\* empty one gives the fallback key of (title, start text, end text).
C13_UidVerbatim ==
    Yielded =>
        /\ Raw.UID # "" => Rec.uid = Raw.UID
        /\ Raw.UID = "" =>
              Rec.uid = "fallback-" \o Sha1Hex(Triple(Raw)[1] \o Triple(Raw)[2]
                                                 \o Triple(Raw)[3])

\* C13: a UID that is non-empty after its surrounding whitespace is removed
\* is the identity key in that stripped form, whatever the other fields are;
\* a UID that is absent, empty or only whitespace gives 'fallback-' plus a
\* hash of (title, start text, end text): equal triples give equal keys and
\* a change of exactly one part gives a different key.
C13_IdentityResolution ==
    Yielded =>
        /\ Raw.UID \in {"u1", " u1 "} => Rec.uid = "u1"
        /\ Raw.UID \in {"", " "} =>
              /\ Rec.uid = "fallback-" \o Sha1Hex(Triple(Raw)[1] \o Triple(Raw)[2]
                                                    \o Triple(Raw)[3])
              /\ \A c \in Unnamed :
                    LET n == Cardinality(DifferingParts(Triple(c), Triple(Raw)))
                        key == NormalizeComp(c).uid IN
                    /\ n = 0 => key = Rec.uid
                    /\ n = 1 => key # Rec.uid

C13_Witness ==
    /\ Yielded
    /\ Raw.UID = " "
    /\ Rec.uid = FallbackKey("A", Naive(100), Absent)

\* the calls of a run that take a time range
Ranged(p) ==
    {i \in 1..Len(run[p].calls) : run[p].calls[i].op \in {"date_search", "list"}}

WindowRead(p) == run[p].pc \in {"connect", "search", "loop", "list", "decide"}

\* C14: once a run has read the clock its window is [now - DAYS_PAST days,
\* now + DAYS_AHEAD days] of that one reading until the run ends, and the
\* source query and every destination lookup of the run carry exactly these
\* two bounds.
C14_WindowOnce ==
    \A p \in Procs :
        /\ (WindowRead(p) \/ Ranged(p) # {}) =>
              /\ run[p].time_min = clock - DAYS_PAST * HoursPerDay
              /\ run[p].time_max = clock + DAYS_AHEAD * HoursPerDay
        /\ \A i \in Ranged(p) :
              /\ run[p].calls[i].from = run[p].time_min
              /\ run[p].calls[i].to = run[p].time_max

C14_Witness ==
    /\ run[1].pc = "decide"
    /\ clock = 240
    /\ run[1].total >= 1
    /\ \E i, j \in Ranged(1) :
          /\ run[1].calls[i].op = "date_search"
          /\ run[1].calls[j].op = "list"
          /\ run[1].calls[j].from = 216
          /\ run[1].calls[j].to = 576

\* the stamp parse_vevents reads: LAST-MODIFIED, else DTSTAMP
Stamp(comp) == IF Truthy(comp.LASTMOD) THEN comp.LASTMOD ELSE comp.DTSTAMP

\* C15: a start, end or stamp without a zone is read as UTC: the record holds
\* the same wall-clock hour, on a host in any zone.
C15_NaiveIsUtc ==
    Yielded =>
        /\ (IsDateTime(Raw.DTSTART) /\ ~Raw.DTSTART.aware) =>
              Rec.start.v = IsoFormat(Raw.DTSTART.t)
        /\ (IsDateTime(Raw.DTEND) /\ ~Raw.DTEND.aware) =>
              Rec.end.v = IsoFormat(Raw.DTEND.t)
        /\ (IsDateTime(Stamp(Raw)) /\ ~Stamp(Raw).aware) =>
              Rec.lastmod = IsoFormat(Stamp(Raw).t)

\* start and end without a zone are read as UTC on every host
NaiveSpanIsUtc ==
    Yielded =>
        /\ (IsDateTime(Raw.DTSTART) /\ ~Raw.DTSTART.aware) =>
              Rec.start.v = IsoFormat(Raw.DTSTART.t)
        /\ (IsDateTime(Raw.DTEND) /\ ~Raw.DTEND.aware) =>
              Rec.end.v = IsoFormat(Raw.DTEND.t)

\* on a host whose zone is UTC a stamp without a zone is read as UTC too
NaiveStampIsUtcOnUtcHost ==
    (Yielded /\ hostTz = 0 /\ IsDateTime(Stamp(Raw)) /\ ~Stamp(Raw).aware) =>
        Rec.lastmod = IsoFormat(Stamp(Raw).t)

\* the identity keys of the source's events
SourceKeys ==
    UNION {{NormalizeComp(src.objs[i].comps[j]).uid :
               j \in 1..Len(src.objs[i].comps)} : i \in 1..Len(src.objs)}

\* the events the lookup of the event in hand returned
Returned(p) == {run[p].items[k].id : k \in 1..Len(run[p].items)}

\* C16: no step removes a destination event, and a step changes one only
\* when it is an event the lookup of the event in hand returned, tagged
\* source=ISERV and uid=identity_key; an untagged event and a tagged one
\* whose uid no source event has are never changed.
C16_DestFrame ==
    [][/\ Len(dest') >= Len(dest)
       /\ \A i \in 1..Len(dest) :
             /\ dest'[i].id = dest[i].id
             /\ dest'[i] # dest[i] =>
                   /\ \E p \in Procs :
                         /\ run[p].pc = "decide"
                         /\ dest[i].id \in Returned(p)
                         /\ Tagged(dest[i], run[p].ev.uid)
                   /\ TaggedIserv(dest[i])
                   /\ dest[i].priv["uid"] \in SourceKeys]_vars

C16_Witness ==
    /\ Len(dest) >= 2
    /\ dest[1] = [GOrphan EXCEPT !.id = 1]
    /\ dest[2].id = 2
    /\ dest[2].summary # "old"
    /\ \E k \in 1..Len(run[1].log) :
          run[1].log[k].msg = "Updated" /\ run[1].log[k].id = 2
====
